---- MODULE Spec2Model ----
(***************************************************************************)
(* A model of youtube-list (src/src/main.rs): the two pagination loops,    *)
(* the record normalizers, the Watch Later HTML extraction loop and the    *)
(* final file write of both subcommands.                                   *)
(*                                                                         *)
(* Strings of the API objects are TLA+ strings.  The texts the HTML run    *)
(* works on (element text, href) are sequences of symbols, so that trim()  *)
(* and split() are computed: in an href the symbol "W" stands for the      *)
(* literal "watch?v=", "L" for the literal "&list=", every other symbol    *)
(* for a run of characters that holds neither literal.                     *)
(***************************************************************************)
EXTENDS Integers, Sequences, FiniteSets, TLC

VARIABLES
    sub,              \* opt.sub: the subcommand
    output_file,      \* Option<PathBuf> of the subcommand
    input_file,       \* Option<PathBuf> of SaveWatchLaterHtmlToJson
    pc,               \* position of main
    panic,            \* "" or the message of the panic that ended the run
    curr_page_token,  \* the pagination loop's cursor
    playlists,        \* Vec<youtube3::Playlist> of request_playlists
    idx,              \* position of `for p in playlists` (1-based)
    playlist_items,   \* the Vec being accumulated (remote items, or SimplePlaylistItem)
    output_playlists, \* Vec<Playlist> of SavePlaylistsToJson
    files,            \* the fs::write calls that succeeded, in order
    stdout,           \* lines printed with println!
    stderr,           \* lines printed with eprintln!
    pl_calls,         \* remote side: page tokens of the playlists().list calls received
    pl_pages,         \* remote side: the pages answered to them
    it_calls,         \* remote side: the playlist_items().list calls of the current loop
    it_pages,         \* remote side: the pages answered to them
    items_called,     \* remote side: playlist ids item listings were started for
    ncalls,           \* remote side: number of listing calls received
    failedCall,       \* remote side: 0, or the number of the call that failed
    nserved,          \* remote side: number of objects served so far
    blocks,           \* the #content blocks the extraction loop has taken so far
    norm_pc,          \* position of the normalizer harness
    norm_arg,         \* the remote object handed to a normalizer
    norm_out          \* the canonical record it returned

vars == <<sub, output_file, input_file, pc, panic, curr_page_token, playlists, idx,
          playlist_items, output_playlists, files, stdout, stderr, pl_calls, pl_pages,
          it_calls, it_pages, items_called, ncalls, failedCall, nserved, blocks,
          norm_pc, norm_arg, norm_out>>

mainVars == <<sub, output_file, input_file, pc, panic, curr_page_token, playlists, idx,
              playlist_items, output_playlists, files, stdout, stderr, pl_calls,
              pl_pages, it_calls, it_pages, items_called, ncalls, failedCall, nserved, blocks>>

normVars == <<norm_pc, norm_arg, norm_out>>

(***************************************************************************)
(* Option<T>                                                               *)
(***************************************************************************)
None == [some |-> FALSE]

Some(x) == [some |-> TRUE, v |-> x]

Opt(S) == {None} \cup {Some(x) : x \in S}

\* Option::unwrap_or
unwrap_or(option, default) == IF option.some THEN option.v ELSE default

get_text(option, default) == IF option.some THEN option.v ELSE default

(***************************************************************************)
(* Sequence helpers                                                        *)
(***************************************************************************)
RECURSIVE Flatten(_)
Flatten(ss) == IF ss = <<>> THEN <<>> ELSE Head(ss) \o Flatten(Tail(ss))

SeqsUpTo(S, n) == UNION {[1..k -> S] : k \in 0..n}

\* Vec<String>::join
RECURSIVE join(_, _)
join(strs, sep) ==
    IF strs = <<>> THEN ""
    ELSE IF Len(strs) = 1 THEN strs[1]
    ELSE strs[1] \o sep \o join(Tail(strs), sep)

(***************************************************************************)
(* Canonical records and the normalizers                                   *)
(***************************************************************************)
Playlist_new ==
    [title |-> "", description |-> "", channel_title |-> "", tags |-> "",
     published_at |-> "", id |-> "", status |-> "", items |-> <<>>]

PlaylistItem_new ==
    [title |-> "", link |-> "", published_at |-> "", position_in_playlist |-> 0,
     description |-> ""]

parse_playlist(playlist) ==
    LET default_status == [privacy_status |-> Some("Unknown")]
        playlist_id == get_text(playlist.id, "")
        playlist_status ==
            get_text(unwrap_or(playlist.status, default_status).privacy_status, "Unknown")
        info == Playlist_new
        filled ==
            IF playlist.snippet.some
            THEN LET snippet == playlist.snippet.v
                 IN  [info EXCEPT
                        !.title = unwrap_or(snippet.title, "NO_TITLE"),
                        !.description = unwrap_or(snippet.description, ""),
                        !.channel_title = unwrap_or(snippet.channel_title, "NO_TITLE"),
                        !.tags = join(unwrap_or(snippet.tags, <<>>), ", "),
                        !.published_at = unwrap_or(snippet.published_at, "NO_TITLE")]
            ELSE info
    IN  [filled EXCEPT !.id = playlist_id, !.status = playlist_status]

parse_playlist_item(item) ==
    LET info == PlaylistItem_new
    IN  IF item.snippet.some
        THEN LET snippet == item.snippet.v
                 titled == [info EXCEPT !.title = get_text(snippet.title, "")]
                 detailed ==
                     IF item.content_details.some
                     THEN LET details == item.content_details.v
                              video_id == get_text(details.video_id, "")
                          IN  [titled EXCEPT
                                 !.published_at = get_text(details.video_published_at, ""),
                                 !.link = "https://www.youtube.com/watch?v=" \o video_id]
                     ELSE titled
             IN  [detailed EXCEPT
                    !.position_in_playlist = unwrap_or(snippet.position, 0),
                    !.published_at = get_text(snippet.published_at, ""),
                    !.description = get_text(snippet.description, "")]
        ELSE info

(***************************************************************************)
(* The remote objects the normalizers are applied to: every combination    *)
(* of present and absent optional fields.                                  *)
(***************************************************************************)
PlaylistSnippets ==
    [title : Opt({"T"}), description : Opt({"D"}), channel_title : Opt({"CH"}),
     tags : Opt({<<"a", "b", "c">>}), published_at : Opt({"2020"})]

PlaylistStatuses == [privacy_status : Opt({"public"})]

RemotePlaylistObjects ==
    [id : Opt({"PL1", "PL2"}), snippet : Opt(PlaylistSnippets), status : Opt(PlaylistStatuses)]

ItemSnippets ==
    [title : Opt({"V"}), position : Opt({3}), published_at : Opt({"2021"}),
     description : Opt({"vd"})]

ItemContentDetails == [video_id : Opt({"ABC123"}), video_published_at : Opt({"2019"})]

RemoteItemObjects ==
    [snippet : Opt(ItemSnippets), content_details : Opt(ItemContentDetails)]

(***************************************************************************)
(* Bounds of the model                                                     *)
(***************************************************************************)
\* objects (playlists and playlist items together) the remote serves in one run
MaxObjects == 3

\* pages the remote serves in one pagination loop
MaxPages == 2

\* #content blocks of the saved HTML document
MaxBlocks == 3

(***************************************************************************)
(* The remote listing endpoint.  A call fails, or answers a page: an       *)
(* optional item list and an optional next page token.                     *)
(***************************************************************************)
\* the cursor a page carries names the page it leads to
Tokens(npages) == {"page" \o ToString(npages + 2)}

RunPlaylists ==
    { [id |-> Some("PL1"),
       snippet |-> Some([title |-> Some("T"), description |-> Some("D"),
                         channel_title |-> Some("CH"), tags |-> Some(<<"a", "b", "c">>),
                         published_at |-> Some("2020")]),
       status |-> Some([privacy_status |-> Some("public")])],
      [id |-> Some("PL2"), snippet |-> None, status |-> None],
      [id |-> None,
       snippet |-> Some([title |-> Some("T"), description |-> None,
                         channel_title |-> None, tags |-> None, published_at |-> None]),
       status |-> Some([privacy_status |-> None])] }

RunItems ==
    { [snippet |-> Some([title |-> Some("V"), position |-> Some(3),
                         published_at |-> Some("2021"), description |-> Some("vd")]),
       content_details |-> Some([video_id |-> Some("ABC123"),
                                 video_published_at |-> Some("2019")])],
      [snippet |-> Some([title |-> None, position |-> None, published_at |-> None,
                         description |-> None]),
       content_details |-> None] }

Failure == [ok |-> FALSE]

ListResponses(Objects, room, npages) ==
    {Failure} \cup
    [ok : {TRUE},
     items : Opt(SeqsUpTo(Objects, room)),
     next_page_token : IF npages + 1 < MaxPages THEN Opt(Tokens(npages)) ELSE {None}]

NumItems(result) == IF result.items.some THEN Len(result.items.v) ELSE 0

(***************************************************************************)
(* Text of the saved HTML document                                         *)
(***************************************************************************)
\* str::trim
RECURSIVE trim_start(_)
trim_start(text) ==
    IF text # <<>> /\ Head(text) = " " THEN trim_start(Tail(text)) ELSE text

RECURSIVE trim_end(_)
trim_end(text) ==
    IF text # <<>> /\ text[Len(text)] = " "
    THEN trim_end(SubSeq(text, 1, Len(text) - 1))
    ELSE text

trim(text) == trim_end(trim_start(text))

\* str::split(pat).collect::<Vec<&str>>() for a one-symbol pattern:
\* n occurrences of pat give n + 1 parts, the empty text gives one empty part
RECURSIVE split(_, _)
split(text, pat) ==
    IF \E i \in 1..Len(text) : text[i] = pat
    THEN LET i == CHOOSE k \in 1..Len(text) :
                      text[k] = pat /\ \A j \in 1..(k - 1) : text[j] # pat
         IN  <<SubSeq(text, 1, i - 1)>> \o split(SubSeq(text, i + 1, Len(text)), pat)
    ELSE <<text>>

\* parts[1] (0-based) panics when "watch?v=" does not occur in the link
split_video_id(link) ==
    LET parts == split(link, "W")
    IN  IF Len(parts) < 2
        THEN [panicked |-> TRUE]
        ELSE [panicked |-> FALSE, v |-> split(parts[2], "L")[1]]

TitleTexts == {<<" ", "T", " ">>}

ChannelTexts == {<<"C", " ">>}

Hrefs ==
    { <<"x", "W", "a", "L", "b">>,   \* https://x/watch?v=a&list=b
      <<"x", "W", "a">>,             \* https://x/watch?v=a
      <<"x", "W", "L", "b">>,        \* https://x/watch?v=&list=b
      <<"x", "L", "b">>,             \* https://x/&list=b
      <<"x">> }                      \* https://x/

\* a #content element: its first #video-title and #text descendants' text, and
\* its first `#content > a` element with its href attribute, where present
ContentBlocks ==
    [title : Opt(TitleTexts), channel : Opt(ChannelTexts),
     link : Opt([href : Opt(Hrefs)])]

\* playlist_items.iter().filter(|x| !x.id.is_empty())
RECURSIVE filter_non_empty_link(_)
filter_non_empty_link(items) ==
    IF items = <<>> THEN <<>>
    ELSE IF Head(items).link # <<>>
         THEN <<Head(items)>> \o filter_non_empty_link(Tail(items))
         ELSE filter_non_empty_link(Tail(items))

RECURSIVE filter_non_empty_id(_)
filter_non_empty_id(items) ==
    IF items = <<>> THEN <<>>
    ELSE IF Head(items).id # <<>>
         THEN <<Head(items)>> \o filter_non_empty_id(Tail(items))
         ELSE filter_non_empty_id(Tail(items))

(***************************************************************************)
(* Steps shared by the two pagination loops                                *)
(***************************************************************************)
Line(fmt, arg) == [fmt |-> fmt, arg |-> arg]

UnwrapNone == "called Option::unwrap() on a None value"

\* Result::expect on Err: the run panics with msg where it stands
expect_err_retry(msg, here) == [pc |-> here, panic |-> ""]

expect_err(msg, here) == [pc |-> "panicked", panic |-> msg]

\* Vec::append
append_front(acc, items) == items \o acc

append(acc, items) == acc \o items

\* Some(token) => curr_page_token = token
keep_token(curr, token) == curr

take_token(curr, token) == token

\* `for p in playlists` has taken every element
loop_over_early(i, n) == i >= n

loop_over(i, n) == i > n

\* the None arm of `match p.id`: `continue`, nothing is pushed
push_anyway(out, playlist) == Append(out, playlist)

skip_playlist(out, playlist) == out

\* serde_json::to_string of a Vec: the JSON array of the records, kept as the
\* records themselves in their order (it does not fail on these types)
to_string(records) == [json_array |-> records]

(***************************************************************************)
(* main                                                                    *)
(***************************************************************************)
Start ==
    /\ pc = "main"
    /\ UNCHANGED normVars
    /\ stdout' = Append(stdout, Line("Arguments: {}", "opt"))
    /\ \/ /\ pc' = IF sub = "SavePlaylistsToJson" THEN "request_playlists"
                                                  ELSE "read_input"
          /\ panic' = panic
       \/ /\ pc' = expect_err("Secrets file not found", pc).pc
          /\ panic' = expect_err("Secrets file not found", pc).panic
    /\ UNCHANGED <<sub, output_file, input_file, curr_page_token, playlists, idx,
                   playlist_items, output_playlists, files, stderr, pl_calls, pl_pages,
                   it_calls, it_pages, items_called, ncalls, failedCall, nserved, blocks>>

\* one iteration of the loop of request_playlists
RequestPlaylistsCall ==
    /\ pc = "request_playlists"
    /\ UNCHANGED normVars
    /\ \E result \in ListResponses(RunPlaylists, MaxObjects - nserved, Len(pl_pages)) :
         /\ pl_calls' = Append(pl_calls, curr_page_token)
         /\ ncalls' = ncalls + 1
         /\ IF ~result.ok
            THEN /\ failedCall' = ncalls + 1
                 /\ pc' = expect_err("Error fetching playlists", pc).pc
                 /\ panic' = expect_err("Error fetching playlists", pc).panic
                 /\ UNCHANGED <<pl_pages, nserved, playlists, curr_page_token, idx>>
            ELSE /\ failedCall' = failedCall
                 /\ pl_pages' = Append(pl_pages, [items |-> result.items,
                                                  next_page_token |-> result.next_page_token])
                 /\ nserved' = nserved + NumItems(result)
                 /\ IF ~result.items.some
                    THEN /\ pc' = "panicked"
                         /\ panic' = UnwrapNone
                         /\ UNCHANGED <<playlists, curr_page_token, idx>>
                    ELSE /\ playlists' = append(playlists, result.items.v)
                         /\ panic' = panic
                         /\ IF result.next_page_token.some
                            THEN /\ curr_page_token' =
                                        take_token(curr_page_token, result.next_page_token.v)
                                 /\ pc' = pc
                                 /\ idx' = idx
                            ELSE /\ pc' = "for_playlists"
                                 /\ idx' = 1
                                 /\ curr_page_token' = curr_page_token
    /\ UNCHANGED <<sub, output_file, input_file, playlist_items, output_playlists, files,
                   stdout, stderr, it_calls, it_pages, items_called, blocks>>

\* `for p in playlists`, p.id is None: diagnostic and continue
SkipPlaylist ==
    /\ pc = "for_playlists"
    /\ UNCHANGED normVars
    /\ ~loop_over(idx, Len(playlists))
    /\ ~playlists[idx].id.some
    /\ stderr' = Append(stderr, Line("Error: Failed to get playlist id from playlist: {}",
                                     playlists[idx]))
    /\ output_playlists' = skip_playlist(output_playlists, parse_playlist(playlists[idx]))
    /\ idx' = idx + 1
    /\ UNCHANGED <<sub, output_file, input_file, pc, panic, curr_page_token, playlists,
                   playlist_items, files, stdout, pl_calls, pl_pages,
                   it_calls, it_pages, items_called, ncalls, failedCall, nserved, blocks>>

\* `for p in playlists`, p.id is Some(id): parse_playlist_items(&client, &id) is entered
BeginPlaylistItems ==
    /\ pc = "for_playlists"
    /\ UNCHANGED normVars
    /\ ~loop_over(idx, Len(playlists))
    /\ playlists[idx].id.some
    /\ pc' = "parse_playlist_items"
    /\ curr_page_token' = ""
    /\ playlist_items' = <<>>
    /\ it_calls' = <<>>
    /\ it_pages' = <<>>
    /\ UNCHANGED <<sub, output_file, input_file, panic, playlists, idx, output_playlists,
                   files, stdout, stderr, pl_calls, pl_pages, items_called, ncalls,
                   failedCall, nserved, blocks>>

\* one iteration of the loop of parse_playlist_items; on its last one the function
\* returns and main normalizes the items and pushes the playlist
PlaylistItemsCall ==
    /\ pc = "parse_playlist_items"
    /\ UNCHANGED normVars
    /\ LET p == playlists[idx]
           playlist_id == p.id.v
           msg == "Error requesting playlist items for playlist_id: " \o playlist_id
       IN
       \E result \in ListResponses(RunItems, MaxObjects - nserved, Len(it_pages)) :
         /\ it_calls' = Append(it_calls, [playlist_id |-> playlist_id,
                                          page_token |-> curr_page_token])
         /\ items_called' = IF it_calls = <<>> THEN Append(items_called, playlist_id)
                                               ELSE items_called
         /\ ncalls' = ncalls + 1
         /\ IF ~result.ok
            THEN /\ failedCall' = ncalls + 1
                 /\ pc' = expect_err(msg, pc).pc
                 /\ panic' = expect_err(msg, pc).panic
                 /\ UNCHANGED <<it_pages, nserved, playlist_items, curr_page_token, idx,
                                output_playlists>>
            ELSE /\ failedCall' = failedCall
                 /\ it_pages' = Append(it_pages, [items |-> result.items,
                                                  next_page_token |-> result.next_page_token])
                 /\ nserved' = nserved + NumItems(result)
                 /\ IF ~result.items.some
                    THEN /\ pc' = "panicked"
                         /\ panic' = UnwrapNone
                         /\ UNCHANGED <<playlist_items, curr_page_token, idx,
                                        output_playlists>>
                    ELSE /\ playlist_items' = append(playlist_items, result.items.v)
                         /\ panic' = panic
                         /\ IF result.next_page_token.some
                            THEN /\ curr_page_token' =
                                        take_token(curr_page_token, result.next_page_token.v)
                                 /\ pc' = pc
                                 /\ UNCHANGED <<idx, output_playlists>>
                            ELSE /\ LET items == playlist_items'
                                        playlist ==
                                            [parse_playlist(p) EXCEPT !.items =
                                               [i \in 1..Len(items) |->
                                                  parse_playlist_item(items[i])]]
                                    IN  output_playlists' = Append(output_playlists, playlist)
                                 /\ idx' = idx + 1
                                 /\ pc' = "for_playlists"
                                 /\ curr_page_token' = curr_page_token
    /\ UNCHANGED <<sub, output_file, input_file, playlists, files, stdout, stderr,
                   pl_calls, pl_pages, blocks>>

\* the for loop is over: the path is chosen, the playlists are serialized and written
WritePlaylists ==
    /\ pc = "for_playlists"
    /\ UNCHANGED normVars
    /\ loop_over(idx, Len(playlists))
    /\ LET path == IF output_file.some THEN output_file.v ELSE "youtube-output.json"
           text == to_string(output_playlists)
       IN  \/ /\ files' = Append(files, [path |-> path, text |-> text])
              /\ stdout' = Append(stdout, Line("Wrote {} items", Len(output_playlists)))
              /\ pc' = "done"
              /\ panic' = panic
           \/ /\ pc' = expect_err("Unable to write file", pc).pc
              /\ panic' = expect_err("Unable to write file", pc).panic
              /\ UNCHANGED <<files, stdout>>
    /\ UNCHANGED <<sub, output_file, input_file, curr_page_token, playlists, idx,
                   playlist_items, output_playlists, stderr, pl_calls, pl_pages, it_calls,
                   it_pages, items_called, ncalls, failedCall, nserved, blocks>>

\* SaveWatchLaterHtmlToJson without an input file: a diagnostic, nothing else
NoInputFile ==
    /\ pc = "read_input"
    /\ UNCHANGED normVars
    /\ ~input_file.some
    /\ stderr' = Append(stderr, Line("Could not find input file: {}", input_file))
    /\ pc' = "done"
    /\ UNCHANGED <<sub, output_file, input_file, panic, curr_page_token, playlists, idx,
                   playlist_items, output_playlists, files, stdout, pl_calls, pl_pages,
                   it_calls, it_pages, items_called, ncalls, failedCall, nserved, blocks>>

\* fs::read_to_string(input_path), then the document is parsed and selected from
ReadInput ==
    /\ pc = "read_input"
    /\ UNCHANGED normVars
    /\ input_file.some
    /\ \/ /\ pc' = "extract"
          /\ playlist_items' = <<>>
          /\ panic' = panic
       \/ /\ pc' = expect_err("Failed to read input file", pc).pc
          /\ panic' = expect_err("Failed to read input file", pc).panic
          /\ UNCHANGED playlist_items
    /\ UNCHANGED <<sub, output_file, input_file, curr_page_token, playlists, idx,
                   output_playlists, files, stdout, stderr, pl_calls, pl_pages, it_calls,
                   it_pages, items_called, ncalls, failedCall, nserved, blocks>>

\* one iteration of `for item in items` over the #content elements
ExtractBlock ==
    /\ pc = "extract"
    /\ UNCHANGED normVars
    /\ Len(blocks) < MaxBlocks
    /\ \E item \in ContentBlocks :
         LET item_title == IF item.title.some THEN trim(item.title.v) ELSE <<>>
             title_line == IF item.title.some THEN Line("{}", item_title)
                                              ELSE Line("No title?", <<>>)
             item_channel == IF item.channel.some THEN trim(item.channel.v) ELSE <<>>
             channel_line == IF item.channel.some THEN Line("{}", item_channel)
                                                  ELSE Line("No channel title?", <<>>)
             href == IF item.link.some THEN unwrap_or(item.link.v.href, <<>>) ELSE <<>>
             video_id == split_video_id(href)
             printed == stdout \o <<title_line, channel_line>>
         IN  /\ blocks' = Append(blocks, item)
             /\ IF ~item.link.some
                THEN /\ stdout' = printed \o <<Line("No video_link?", <<>>), Line("", <<>>)>>
                     /\ playlist_items' =
                            Append(playlist_items,
                                   [title |-> item_title, channel_name |-> item_channel,
                                    id |-> <<>>, link |-> <<>>])
                     /\ UNCHANGED <<pc, panic>>
                ELSE IF video_id.panicked
                THEN /\ stdout' = printed \o <<Line("{}", href)>>
                     /\ pc' = "panicked"
                     /\ panic' = "index out of bounds: the len is 1 but the index is 1"
                     /\ UNCHANGED playlist_items
                ELSE /\ stdout' = printed \o <<Line("{}", href), Line("{}", video_id.v),
                                               Line("", <<>>)>>
                     /\ playlist_items' =
                            Append(playlist_items,
                                   [title |-> item_title, channel_name |-> item_channel,
                                    id |-> video_id.v, link |-> href])
                     /\ UNCHANGED <<pc, panic>>
    /\ UNCHANGED <<sub, output_file, input_file, curr_page_token, playlists, idx,
                   output_playlists, files, stderr, pl_calls, pl_pages, it_calls,
                   it_pages, items_called, ncalls, failedCall, nserved>>

\* the document has no further #content element: the records are filtered, the
\* path is chosen, the kept records are serialized and written
WriteWatchLater ==
    /\ pc = "extract"
    /\ UNCHANGED normVars
    /\ LET kept == filter_non_empty_id(playlist_items)
           path == IF output_file.some THEN output_file.v ELSE "youtube-output-wl.json"
           text == to_string(kept)
       IN  \/ /\ files' = Append(files, [path |-> path, text |-> text])
              /\ stdout' = Append(stdout, Line("Wrote {} items", Len(kept)))
              /\ pc' = "done"
              /\ panic' = panic
           \/ /\ pc' = expect_err("Unable to write file", pc).pc
              /\ panic' = expect_err("Unable to write file", pc).panic
              /\ UNCHANGED <<files, stdout>>
    /\ UNCHANGED <<sub, output_file, input_file, curr_page_token, playlists, idx,
                   playlist_items, output_playlists, stderr, pl_calls, pl_pages, it_calls,
                   it_pages, items_called, ncalls, failedCall, nserved, blocks>>

(***************************************************************************)
(* The run of main                                                         *)
(***************************************************************************)
NormIdle ==
    /\ norm_pc = "idle"
    /\ norm_arg = None
    /\ norm_out = None

MainIdle ==
    /\ sub = "none"
    /\ output_file = None
    /\ input_file = None
    /\ pc = "idle"
    /\ panic = ""
    /\ curr_page_token = ""
    /\ playlists = <<>>
    /\ idx = 0
    /\ playlist_items = <<>>
    /\ output_playlists = <<>>
    /\ files = <<>>
    /\ stdout = <<>>
    /\ stderr = <<>>
    /\ pl_calls = <<>>
    /\ pl_pages = <<>>
    /\ it_calls = <<>>
    /\ it_pages = <<>>
    /\ items_called = <<>>
    /\ ncalls = 0
    /\ failedCall = 0
    /\ nserved = 0
    /\ blocks = <<>>

Init ==
    /\ sub \in {"SavePlaylistsToJson", "SaveWatchLaterHtmlToJson"}
    /\ output_file \in Opt({"out.json"})
    /\ input_file \in IF sub = "SaveWatchLaterHtmlToJson" THEN Opt({"wl.html"}) ELSE {None}
    /\ pc = "main"
    /\ panic = ""
    /\ curr_page_token = ""
    /\ playlists = <<>>
    /\ idx = 0
    /\ playlist_items = <<>>
    /\ output_playlists = <<>>
    /\ files = <<>>
    /\ stdout = <<>>
    /\ stderr = <<>>
    /\ pl_calls = <<>>
    /\ pl_pages = <<>>
    /\ it_calls = <<>>
    /\ it_pages = <<>>
    /\ items_called = <<>>
    /\ ncalls = 0
    /\ failedCall = 0
    /\ nserved = 0
    /\ blocks = <<>>
    /\ NormIdle

Next ==
    \/ Start
    \/ RequestPlaylistsCall
    \/ SkipPlaylist
    \/ BeginPlaylistItems
    \/ PlaylistItemsCall
    \/ WritePlaylists
    \/ NoInputFile
    \/ ReadInput
    \/ ExtractBlock
    \/ WriteWatchLater

Spec == Init /\ [][Next]_vars

(***************************************************************************)
(* The normalizers on their own: each is applied to every remote object    *)
(***************************************************************************)
NormInit ==
    /\ MainIdle
    /\ norm_pc = "call"
    /\ norm_arg \in {[kind |-> "playlist", object |-> o] : o \in RemotePlaylistObjects}
                    \cup {[kind |-> "item", object |-> o] : o \in RemoteItemObjects}
    /\ norm_out = None

NormalizePlaylist ==
    /\ norm_pc = "call"
    /\ UNCHANGED mainVars
    /\ norm_arg.kind = "playlist"
    /\ norm_out' = parse_playlist(norm_arg.object)
    /\ norm_pc' = "returned"
    /\ UNCHANGED norm_arg

NormalizeItem ==
    /\ norm_pc = "call"
    /\ UNCHANGED mainVars
    /\ norm_arg.kind = "item"
    /\ norm_out' = parse_playlist_item(norm_arg.object)
    /\ norm_pc' = "returned"
    /\ UNCHANGED norm_arg

NormNext ==
    \/ NormalizePlaylist
    \/ NormalizeItem

NormSpec == NormInit /\ [][NormNext]_vars

(***************************************************************************)
(* Vocabulary of the properties                                            *)
(***************************************************************************)
Api == sub = "SavePlaylistsToJson"

Html == sub = "SaveWatchLaterHtmlToJson"

\* the items of a sequence of answered pages, in page order
PageItems(pages) ==
    Flatten([k \in 1..Len(pages) |->
                IF pages[k].items.some THEN pages[k].items.v ELSE <<>>])

\* request_playlists has returned
PlLoopReturned == Api /\ idx >= 1

\* the current call of parse_playlist_items has returned
ItLoopReturned ==
    /\ Api
    /\ it_calls # <<>>
    /\ pc \in {"for_playlists", "done"} \/ panic = "Unable to write file"

\* calls made with tokens `tokens` and the pages answered to them follow the cursor
CursorChain(tokens, pages) ==
    /\ Len(tokens) \in {Len(pages), Len(pages) + 1}
    /\ tokens # <<>> => tokens[1] = ""
    /\ \A k \in 2..Len(tokens) : pages[k - 1].next_page_token = Some(tokens[k])

\* the fetched playlists that carry an identifier, in the remote's order
WithId(pls) == SelectSeq(pls, LAMBDA p : p.id.some)

Ids(pls) == [k \in 1..Len(pls) |-> pls[k].id.v]

\* C1: each pagination loop accumulates, and returns, exactly the concatenation of
\* the items of the pages it was answered, in page order
C1_Concatenation ==
    Api => /\ playlists = PageItems(pl_pages)
           /\ playlist_items = PageItems(it_pages)
           /\ ItLoopReturned =>
                 output_playlists[Len(output_playlists)].items =
                    [k \in 1..Len(playlist_items) |-> parse_playlist_item(playlist_items[k])]

\* both loops have returned; the playlist listing began with an empty page that
\* carried a cursor, the item listing spread two different items over two pages
C1_Witness ==
    /\ PlLoopReturned
    /\ ItLoopReturned
    /\ Len(pl_pages) = 2
    /\ pl_pages[1].items = Some(<<>>)
    /\ pl_pages[1].next_page_token.some
    /\ Len(it_pages) = 2
    /\ PageItems(<<it_pages[1]>>) # <<>>
    /\ PageItems(<<it_pages[2]>>) # <<>>
    /\ playlist_items[1] # playlist_items[2]

\* C2: the first call of a loop carries the empty cursor, every later call the cursor
\* of the response before it; a running loop's last response carried a cursor, a
\* returned loop's last response carried none, and it made one call per page
C2_CursorProtocol ==
    Api => /\ CursorChain(pl_calls, pl_pages)
           /\ CursorChain([k \in 1..Len(it_calls) |-> it_calls[k].page_token], it_pages)
           /\ pc = "request_playlists" /\ pl_pages # <<>> =>
                 pl_pages[Len(pl_pages)].next_page_token.some
           /\ pc = "parse_playlist_items" /\ it_pages # <<>> =>
                 it_pages[Len(it_pages)].next_page_token.some
           /\ PlLoopReturned =>
                 /\ Len(pl_calls) = Len(pl_pages)
                 /\ pl_pages[Len(pl_pages)].next_page_token = None
           /\ ItLoopReturned =>
                 /\ Len(it_calls) = Len(it_pages)
                 /\ it_pages[Len(it_pages)].next_page_token = None

\* the playlist listing took two calls, and an item listing has returned after two
C2_Witness ==
    /\ PlLoopReturned
    /\ Len(pl_calls) = 2
    /\ ItLoopReturned
    /\ Len(it_calls) = 2
    /\ it_calls[2].page_token # ""

\* C3: a failed listing call is the last remote call of the run, the run has
\* panicked on it, and no file has been written
C3_FailureIsFatal ==
    failedCall # 0 =>
        /\ pc = "panicked"
        /\ panic # ""
        /\ ncalls = failedCall
        /\ files = <<>>

\* an item listing failed on its second page, after a playlist had been completed
C3_Witness ==
    /\ failedCall # 0
    /\ output_playlists # <<>>
    /\ Len(it_pages) = 1
    /\ Len(it_calls) = 2

\* C4: the playlists pushed so far are the normalized playlists with an identifier
\* among those the for loop has passed, in order; item listings were started for
\* exactly these identifiers; and what is written is all of them
C4_SkipWithoutId ==
    Api /\ idx >= 1 =>
        LET passed == WithId(SubSeq(playlists, 1, idx - 1))
            called == IF /\ pc \in {"parse_playlist_items", "panicked"}
                         /\ panic # "Unable to write file"
                         /\ it_calls # <<>>
                      THEN WithId(SubSeq(playlists, 1, idx))
                      ELSE passed
        IN  /\ Len(output_playlists) = Len(passed)
            /\ \A k \in 1..Len(passed) :
                  [output_playlists[k] EXCEPT !.items = <<>>] = parse_playlist(passed[k])
            /\ items_called = Ids(called)
            /\ pc = "done" =>
                  /\ idx = Len(playlists) + 1
                  /\ files[1].text = to_string(output_playlists)

\* the run is done; the second of three fetched playlists had no identifier, the
\* first and third are in the output
C4_Witness ==
    /\ Api
    /\ pc = "done"
    /\ Len(playlists) = 3
    /\ playlists[1].id.some
    /\ ~playlists[2].id.some
    /\ playlists[3].id.some
    /\ Len(output_playlists) = 2
    /\ stderr # <<>>

\* the link of a block is missing, has no href, or has an href in which
\* "watch?v=" and then "&list=" occur
LinkAsClaimed(block) ==
    \/ ~block.link.some
    \/ ~block.link.v.href.some
    \/ \E i, j \in 1..Len(block.link.v.href.v) :
          i < j /\ block.link.v.href.v[i] = "W" /\ block.link.v.href.v[j] = "L"

\* C5: the extraction loop does not abort on a block whose title, channel or link
\* element is missing or whose link element has no href: each block taken so far
\* has produced a record, with the empty default for every missing field
C5_NeverAborts ==
    Html /\ blocks # <<>> /\ (\A k \in 1..Len(blocks) : LinkAsClaimed(blocks[k])) =>
        /\ panic \in {"", "Unable to write file"}
        /\ Len(playlist_items) = Len(blocks)
        /\ \A k \in 1..Len(blocks) :
              /\ ~blocks[k].title.some => playlist_items[k].title = <<>>
              /\ ~blocks[k].channel.some => playlist_items[k].channel_name = <<>>
              /\ ~blocks[k].link.some \/ ~blocks[k].link.v.href.some =>
                    /\ playlist_items[k].link = <<>>
                    /\ playlist_items[k].id = <<>>

Snippet(object) == object.snippet.v

\* C6: parse_playlist gives title, channel_title and published_at the value
\* "NO_TITLE", and description the empty string, when the snippet is absent and
\* when the snippet is present without that field
C6_NoTitleDefaults ==
    norm_pc = "returned" /\ norm_arg.kind = "playlist" =>
        LET o == norm_arg.object
        IN  /\ ~o.snippet.some \/ ~Snippet(o).title.some => norm_out.title = "NO_TITLE"
            /\ ~o.snippet.some \/ ~Snippet(o).channel_title.some =>
                  norm_out.channel_title = "NO_TITLE"
            /\ ~o.snippet.some \/ ~Snippet(o).published_at.some =>
                  norm_out.published_at = "NO_TITLE"
            /\ ~o.snippet.some \/ ~Snippet(o).description.some =>
                  norm_out.description = ""

\* C7: parse_playlist_item builds the watch link from the video id whenever the
\* content details are present, leaves it empty exactly when they are absent, and
\* the snippet has no part in it
C7_LinkFromContentDetails ==
    norm_pc = "returned" /\ norm_arg.kind = "item" =>
        LET o == norm_arg.object
        IN  /\ o.content_details.some =>
                  norm_out.link = "https://www.youtube.com/watch?v="
                                     \o get_text(o.content_details.v.video_id, "")
            /\ norm_out.link = "" <=> ~o.content_details.some

\* C8: what the Watch Later run writes is the subsequence of the extracted records
\* whose id is not empty, in their order
C8_WrittenHaveIds ==
    Html /\ files # <<>> =>
        LET written == files[1].text.json_array
        IN  /\ written = SelectSeq(playlist_items, LAMBDA r : r.id # <<>>)
            /\ \A k \in 1..Len(written) : written[k].id # <<>>

\* three blocks were extracted, the second with a link but an empty id (dropped),
\* the first and third with ids (written, in that order)
C8_Witness ==
    /\ Html
    /\ pc = "done"
    /\ files # <<>>
    /\ Len(playlist_items) = 3
    /\ playlist_items[2].id = <<>>
    /\ playlist_items[2].link # <<>>
    /\ files[1].text.json_array = <<playlist_items[1], playlist_items[3]>>

\* the records a run hands to the write: every pushed playlist, or every
\* extracted record that has an id
Accumulated ==
    IF Api THEN output_playlists
           ELSE SelectSeq(playlist_items, LAMBDA r : r.id # <<>>)

\* the run has taken every fetched playlist, or is past the extraction loop
AllAccumulated ==
    IF Api THEN idx = Len(playlists) + 1 /\ Len(output_playlists) = Len(WithId(playlists))
           ELSE pc # "extract"

\* C9: there is no write while records are being fetched, normalized or extracted;
\* a run that took its input to the end has written exactly once, after every
\* record was accumulated, and the write holds all of them in order
C9_SingleFinalWrite ==
    /\ Len(files) <= 1
    /\ pc \in {"main", "request_playlists", "for_playlists", "parse_playlist_items",
               "read_input", "extract"} => files = <<>>
    /\ files # <<>> =>
          /\ pc = "done"
          /\ AllAccumulated
          /\ files[1].text = [json_array |-> Accumulated]
    /\ pc = "done" /\ (Api \/ input_file.some) => Len(files) = 1

\* a playlists run has written two playlists, the first with an item
C9_Witness ==
    /\ Api
    /\ pc = "done"
    /\ Len(files) = 1
    /\ Len(files[1].text.json_array) = 2
    /\ files[1].text.json_array[1].items # <<>>

\* C10: without an output path the finished run has written no file, and its
\* serialized output is on stdout
C10_StdoutWithoutPath ==
    pc = "done" /\ ~output_file.some /\ (Api \/ input_file.some) =>
        /\ files = <<>>
        /\ \E k \in 1..Len(stdout) : stdout[k].arg = to_string(Accumulated)

====
